---- MODULE Spec2Model ----
(***************************************************************************)
(* A model of package tree (tree.go): an unbalanced binary search tree     *)
(* whose nodes carry parent, left and right pointers.  The heap of Node    *)
(* structs is the function `nodes` from node addresses to records; the     *)
(* Tree struct is the pair (root, size).  The comparator handed to New is  *)
(* the strict order Less on integers.                                      *)
(***************************************************************************)
EXTENDS Integers, Sequences, FiniteSets, TLC

\* ------------------------------------------------------------- bounds
\* Values stored by the general specification are 1..MaxVal.
MaxVal == 4
\* Addresses the allocator can hand out are 1..MaxNodes.
MaxNodes == 8
\* SpecHist counts at most MaxOps operations over the values 1..HistVal.
MaxOps == 5
HistVal == 3
\* SpecRace starts at most RaceOps operations.
RaceOps == 4
\* SpecRand loads slices of at most MaxLen values.
MaxLen == 3
\* SpecStress loads the values 1..StressSize.
StressSize == 7

Nil == 0
\* The result of a call that ends in a run-time panic.
Panic == -1
Values == 1..MaxVal
NodeIds == 1..MaxNodes

VARIABLES
    root,   \* Tree.root: a node address or Nil
    size,   \* Tree.size
    nodes,  \* the heap: live node address -> [val, parent, left, right]
    last,   \* ghost: the last operation, its argument, results and pre-state
    hist,   \* ghost: what has been inserted and deleted so far
    call,   \* the running RandInit or Init call: its position and locals
    lessFn, \* Tree.lessFn: "Less" once New has set it, "nil" in a zero Tree
    procs   \* goroutines working on the tree: their positions and locals

vars == <<root, size, nodes, last, hist, call, lessFn, procs>>

\* ------------------------------------------------------------- comparator
\* The lessFn given to New (the tests' t2.fn: ai < bi).
Less(a, b) == a < b

\* Equality as the tree sees it: neither less(a,b) nor less(b,a).
Equal(a, b) == ~Less(a, b) /\ ~Less(b, a)

\* ------------------------------------------------------------- Tree values
\* The Tree struct together with the heap it points into.
T == [root |-> root, size |-> size, nodes |-> nodes]

\* New(lessFn): &Tree{lessFn: lessFn}, root nil and size 0, no node allocated.
New == [root |-> Nil, size |-> 0, nodes |-> [z \in {} |-> Nil]]

\* &Node{v, n, nil, nil, t.lessFn}
NewNode(v, n) == [val |-> v, parent |-> n, left |-> Nil, right |-> Nil]

\* The address the allocator returns for a new Node: one not in use.
Alloc(h) == CHOOSE z \in NodeIds \ DOMAIN h : \A y \in NodeIds \ DOMAIN h : z <= y

\* ------------------------------------------------------------- Node queries
\* A Find that never looks into a right subtree.
FindLeftOnly(h, t, v) ==
    LET RECURSIVE go(_)
        go(y) == IF y = Nil THEN Nil
                 ELSE IF Less(v, h[y].val) THEN go(h[y].left)
                 ELSE IF Less(h[y].val, v) THEN Nil
                 ELSE y
    IN  go(t)

\* Node.Find: the descent loop from node t.
RECURSIVE Find(_, _, _)
Find(h, t, v) ==
    IF t = Nil THEN Nil
    ELSE IF Less(v, h[t].val) THEN Find(h, h[t].left, v)
    ELSE IF Less(h[t].val, v) THEN Find(h, h[t].right, v)
    ELSE t

\* A Min without the test t == nil: t.left of a nil receiver panics.
MinNoNilCheck(h, t) ==
    LET RECURSIVE go(_)
        go(y) == IF h[y].left # Nil THEN go(h[y].left) ELSE y
    IN  IF t = Nil THEN Panic ELSE go(t)

\* Node.Min: follow left children; nil receiver gives nil.
RECURSIVE Min(_, _)
Min(h, t) ==
    IF t = Nil THEN Nil
    ELSE IF h[t].left # Nil THEN Min(h, h[t].left)
    ELSE t

\* Node.Max: follow right children; nil receiver gives nil.
RECURSIVE Max(_, _)
Max(h, t) ==
    IF t = Nil THEN Nil
    ELSE IF h[t].right # Nil THEN Max(h, h[t].right)
    ELSE t

\* Node.Contains: t.Find(v) != nil.
Contains(h, t, v) == Find(h, t, v) # Nil

\* Tree.Find: t.root.Find(v).
TreeFind(t, v) == Find(t.nodes, t.root, v)

\* Tree.Contains: t.root.Find(v) != nil.
TreeContains(t, v) == Find(t.nodes, t.root, v) # Nil

\* maxInt: the greater of a and b.
maxInt(a, b) == IF a < b THEN b ELSE a

\* A Height in the other convention: a leaf has height 0.
HeightLeafZero(h, t) ==
    LET RECURSIVE go(_)
        go(y) == IF y = Nil THEN 0
                 ELSE IF h[y].left = Nil /\ h[y].right = Nil THEN 0
                 ELSE 1 + maxInt(go(h[y].left), go(h[y].right))
    IN  go(t)

\* A Height that follows the shorter of the two subtrees.
HeightShortest(h, t) ==
    LET RECURSIVE go(_)
        go(y) == IF y = Nil THEN 0
                 ELSE LET l == go(h[y].left)
                          r == go(h[y].right)
                      IN  1 + (IF l < r THEN l ELSE r)
    IN  go(t)

\* Node.Height: 0 for nil, else 1 + maxInt(left height, right height).
RECURSIVE Height(_, _)
Height(h, t) ==
    IF t = Nil THEN 0
    ELSE LET l == Height(h, h[t].left)
             r == Height(h, h[t].right)
         IN  1 + maxInt(l, r)

\* Tree.Height, Tree.Min, Tree.Max: the root's.
TreeHeight(t) == Height(t.nodes, t.root)
TreeMin(t) == Min(t.nodes, t.root)
TreeMax(t) == Max(t.nodes, t.root)

\* Node.Next, the loop of lines 46-49: climb while n is its parent's right child.
RECURSIVE NextUp(_, _, _)
NextUp(h, n, p) ==
    IF p # Nil /\ n = h[p].right THEN NextUp(h, p, h[p].parent) ELSE p

\* A Next that returns the right child itself instead of its minimum.
NextNoMin(h, n) ==
    IF h[n].right # Nil THEN h[n].right ELSE NextUp(h, n, h[n].parent)

\* Node.Next: the in-order successor of n, or nil.
Next(h, n) ==
    IF h[n].right # Nil THEN Min(h, h[n].right) ELSE NextUp(h, n, h[n].parent)

\* Node.Prev, the loop of lines 59-62: climb while n is its parent's left child.
RECURSIVE PrevUp(_, _, _)
PrevUp(h, n, p) ==
    IF p # Nil /\ n = h[p].left THEN PrevUp(h, p, h[p].parent) ELSE p

\* Node.Prev: the in-order predecessor of n, or nil.
Prev(h, n) ==
    IF h[n].left # Nil THEN Max(h, h[n].left) ELSE PrevUp(h, n, h[n].parent)

\* ------------------------------------------------------------- Node.String
\* A bytes.Buffer is a sequence of one-character strings.
DigitChars == <<"0", "1", "2", "3", "4", "5", "6", "7", "8", "9">>

\* fmt's %v of a non-negative int: its decimal digits.
RECURSIVE Fmt(_)
Fmt(v) ==
    IF v < 10 THEN <<DigitChars[v + 1]>>
    ELSE Fmt(v \div 10) \o <<DigitChars[(v % 10) + 1]>>

\* The closure walk of Node.String: "%v " for every value, in order.
RECURSIVE StringWalk(_, _, _)
StringWalk(h, n, buf) ==
    IF n = Nil THEN buf
    ELSE StringWalk(h, h[n].right, StringWalk(h, h[n].left, buf) \o Fmt(h[n].val) \o <<" ">>)

\* buf.Truncate(m)
Truncate(buf, m) == SubSeq(buf, 1, m)

\* A String that forgets buf.Truncate(buf.Len() - 1).
NodeStringNoTruncate(h, t) ==
    (IF t # Nil THEN StringWalk(h, t, <<"[">>) ELSE <<"[">>) \o <<"]">>

\* Node.String
NodeString(h, t) ==
    LET b0 == <<"[">>
        b1 == IF t # Nil
              THEN LET w == StringWalk(h, t, b0) IN Truncate(w, Len(w) - 1)
              ELSE b0
    IN  b1 \o <<"]">>

\* Tree.String: t.root.String()
TreeString(t) == NodeString(t.nodes, t.root)

\* ------------------------------------------------------------- Tree.Slice
\* The closure slice(n, i) of Tree.Slice.  st.array is the array made with
\* length Len(), st.i the next index; an index outside the array panics.
RECURSIVE SliceWalk(_, _, _)
SliceWalk(h, n, st) ==
    IF n = Nil \/ st.panic THEN st
    ELSE LET s1 == IF h[n].left # Nil THEN SliceWalk(h, h[n].left, st) ELSE st
             s2 == IF s1.panic THEN s1
                   ELSE IF s1.i >= Len(s1.array) THEN [s1 EXCEPT !.panic = TRUE]
                   ELSE [s1 EXCEPT !.array[s1.i + 1] = h[n].val, !.i = s1.i + 1]
         IN  IF s2.panic THEN s2
             ELSE IF h[n].right # Nil THEN SliceWalk(h, h[n].right, s2) ELSE s2

\* Tree.Slice: make([]Value, t.Len()) filled by slice(t.root, 0).  A negative
\* length makes make panic.
Slice(t) ==
    IF t.size < 0 THEN [array |-> <<>>, i |-> 0, panic |-> TRUE]
    ELSE SliceWalk(t.nodes, t.root,
                   [array |-> [k \in 1..t.size |-> Nil], i |-> 0, panic |-> FALSE])

\* ------------------------------------------------------------- Tree.Insert
\* A descent that never reports an equal value: it goes right instead.
DescendNoEqual(h, x, n, v) ==
    LET RECURSIVE go(_, _)
        go(y, m) == IF y = Nil THEN [x |-> Nil, n |-> m]
                    ELSE IF Less(v, h[y].val) THEN go(h[y].left, y)
                    ELSE go(h[y].right, y)
    IN  go(x, n)

\* The descent loop of Insert (lines 268-278): x is the node found equal to v
\* (or nil), n the last node visited.
RECURSIVE Descend(_, _, _, _)
Descend(h, x, n, v) ==
    IF x = Nil THEN [x |-> Nil, n |-> n]
    ELSE IF Less(v, h[x].val) THEN Descend(h, h[x].left, x, v)
    ELSE IF Less(h[x].val, v) THEN Descend(h, h[x].right, x, v)
    ELSE [x |-> x, n |-> x]

\* An Insert that attaches the new node on the wrong side of its parent.
InsertWrongSide(t, v) ==
    LET d == Descend(t.nodes, t.root, Nil, v) IN
    IF d.x # Nil THEN [t |-> t, ret |-> d.x]
    ELSE LET z  == Alloc(t.nodes)
             n  == d.n
             h1 == (z :> NewNode(v, n)) @@ t.nodes
             t1 == IF n = Nil THEN [t EXCEPT !.nodes = h1, !.root = z]
                   ELSE IF Less(v, t.nodes[n].val)
                        THEN [t EXCEPT !.nodes = [h1 EXCEPT ![n].right = z]]
                        ELSE [t EXCEPT !.nodes = [h1 EXCEPT ![n].left = z]]
         IN  [t |-> [t1 EXCEPT !.size = @ + 1], ret |-> z]

\* An Insert that forgets t.size++.
InsertNoCount(t, v) ==
    LET d == Descend(t.nodes, t.root, Nil, v) IN
    IF d.x # Nil THEN [t |-> t, ret |-> d.x]
    ELSE LET z  == Alloc(t.nodes)
             n  == d.n
             h1 == (z :> NewNode(v, n)) @@ t.nodes
             t1 == IF n = Nil THEN [t EXCEPT !.nodes = h1, !.root = z]
                   ELSE IF Less(v, t.nodes[n].val)
                        THEN [t EXCEPT !.nodes = [h1 EXCEPT ![n].left = z]]
                        ELSE [t EXCEPT !.nodes = [h1 EXCEPT ![n].right = z]]
         IN  [t |-> t1, ret |-> z]

\* An Insert that counts the call even when the value is already stored.
InsertCountsDuplicate(t, v) ==
    LET d == Descend(t.nodes, t.root, Nil, v) IN
    IF d.x # Nil THEN [t |-> [t EXCEPT !.size = @ + 1], ret |-> d.x]
    ELSE LET z  == Alloc(t.nodes)
             n  == d.n
             h1 == (z :> NewNode(v, n)) @@ t.nodes
             t1 == IF n = Nil THEN [t EXCEPT !.nodes = h1, !.root = z]
                   ELSE IF Less(v, t.nodes[n].val)
                        THEN [t EXCEPT !.nodes = [h1 EXCEPT ![n].left = z]]
                        ELSE [t EXCEPT !.nodes = [h1 EXCEPT ![n].right = z]]
         IN  [t |-> [t1 EXCEPT !.size = @ + 1], ret |-> z]

\* Tree.Insert: the tree after t.Insert(v) and the node returned.
TreeInsert(t, v) ==
    LET d == Descend(t.nodes, t.root, Nil, v) IN
    IF d.x # Nil THEN [t |-> t, ret |-> d.x]
    ELSE LET z  == Alloc(t.nodes)
             n  == d.n
             h1 == (z :> NewNode(v, n)) @@ t.nodes
             t1 == IF n = Nil THEN [t EXCEPT !.nodes = h1, !.root = z]
                   ELSE IF Less(v, t.nodes[n].val)
                        THEN [t EXCEPT !.nodes = [h1 EXCEPT ![n].left = z]]
                        ELSE [t EXCEPT !.nodes = [h1 EXCEPT ![n].right = z]]
         IN  [t |-> [t1 EXCEPT !.size = @ + 1], ret |-> z]

\* An attachment that forgets t.size++.
AttachNoCount(t, n, v) ==
    LET z  == Alloc(t.nodes)
        h1 == (z :> NewNode(v, n)) @@ t.nodes
    IN  IF n = Nil THEN [t EXCEPT !.nodes = h1, !.root = z]
        ELSE IF Less(v, t.nodes[n].val)
             THEN [t EXCEPT !.nodes = [h1 EXCEPT ![n].left = z]]
             ELSE [t EXCEPT !.nodes = [h1 EXCEPT ![n].right = z]]

\* Lines 280-289 of Insert on their own: the new node is made and hung under
\* n, the node the descent ended at, and the size is incremented.
Attach(t, n, v) ==
    LET z  == Alloc(t.nodes)
        h1 == (z :> NewNode(v, n)) @@ t.nodes
        t1 == IF n = Nil THEN [t EXCEPT !.nodes = h1, !.root = z]
              ELSE IF Less(v, t.nodes[n].val)
                   THEN [t EXCEPT !.nodes = [h1 EXCEPT ![n].left = z]]
                   ELSE [t EXCEPT !.nodes = [h1 EXCEPT ![n].right = z]]
    IN  [t1 EXCEPT !.size = @ + 1]

\* ------------------------------------------------------------- Tree.Delete
\* A transplant that forgets v.parent = u.parent.
TransplantNoParent(t, u, v) ==
    LET p == t.nodes[u].parent IN
    IF p = Nil THEN [t EXCEPT !.root = v]
    ELSE IF u = t.nodes[p].left THEN [t EXCEPT !.nodes[p].left = v]
    ELSE [t EXCEPT !.nodes[p].right = v]

\* Tree.transplant(u, v): put v (possibly nil) where u hangs.
Transplant(t, u, v) ==
    LET p  == t.nodes[u].parent
        t1 == IF p = Nil THEN [t EXCEPT !.root = v]
              ELSE IF u = t.nodes[p].left THEN [t EXCEPT !.nodes[p].left = v]
              ELSE [t EXCEPT !.nodes[p].right = v]
    IN  IF v # Nil THEN [t1 EXCEPT !.nodes[v].parent = t1.nodes[u].parent] ELSE t1

\* removeNode's successor search (lines 311-314): leftmost node below s.
RECURSIVE Leftmost(_, _)
Leftmost(h, s) == IF h[s].left # Nil THEN Leftmost(h, h[s].left) ELSE s

\* A removeNode without the test s.parent != n: the successor is never
\* detached from its own place.
RemoveNodeNoDetach(t, n) ==
    LET h == t.nodes
        t9 == IF h[n].left = Nil THEN Transplant(t, n, h[n].right)
              ELSE IF h[n].right = Nil THEN Transplant(t, n, h[n].left)
              ELSE LET s  == Leftmost(h, h[n].right)
                       t3 == Transplant(t, n, s)
                       t4 == [t3 EXCEPT !.nodes[s].left = t3.nodes[n].left]
                   IN  [t4 EXCEPT !.nodes[t4.nodes[s].left].parent = s]
    IN  [t9 EXCEPT !.size = @ - 1]

\* A removeNode that forgets t.transplant(s, s.right): the successor stays
\* linked under its old parent.
RemoveNodeKeepSuccessorLink(t, n) ==
    LET h == t.nodes
        t9 == IF h[n].left = Nil THEN Transplant(t, n, h[n].right)
              ELSE IF h[n].right = Nil THEN Transplant(t, n, h[n].left)
              ELSE LET s  == Leftmost(h, h[n].right)
                       t2 == IF h[s].parent # n
                             THEN LET b == [t EXCEPT !.nodes[s].right = t.nodes[n].right]
                                  IN  [b EXCEPT !.nodes[b.nodes[s].right].parent = s]
                             ELSE t
                       t3 == Transplant(t2, n, s)
                       t4 == [t3 EXCEPT !.nodes[s].left = t3.nodes[n].left]
                   IN  [t4 EXCEPT !.nodes[t4.nodes[s].left].parent = s]
    IN  [t9 EXCEPT !.size = @ - 1]

\* A removeNode that copies the successor's value into n and unlinks the
\* successor instead of moving the successor node into n's place.
RemoveNodeCopyValue(t, n) ==
    LET h == t.nodes
        t9 == IF h[n].left = Nil THEN Transplant(t, n, h[n].right)
              ELSE IF h[n].right = Nil THEN Transplant(t, n, h[n].left)
              ELSE LET s  == Leftmost(h, h[n].right)
                       t2 == Transplant(t, s, h[s].right)
                   IN  [t2 EXCEPT !.nodes[n].val = h[s].val]
    IN  [t9 EXCEPT !.size = @ - 1]

\* A removeNode that forgets to hang n.left under the successor.
RemoveNodeDropLeft(t, n) ==
    LET h == t.nodes
        t9 == IF h[n].left = Nil THEN Transplant(t, n, h[n].right)
              ELSE IF h[n].right = Nil THEN Transplant(t, n, h[n].left)
              ELSE LET s  == Leftmost(h, h[n].right)
                       t2 == IF h[s].parent # n
                             THEN LET a == Transplant(t, s, h[s].right)
                                      b == [a EXCEPT !.nodes[s].right = a.nodes[n].right]
                                  IN  [b EXCEPT !.nodes[b.nodes[s].right].parent = s]
                             ELSE t
                   IN  Transplant(t2, n, s)
    IN  [t9 EXCEPT !.size = @ - 1]

\* Tree.removeNode(n), n # nil.
RemoveNode(t, n) ==
    LET h == t.nodes
        t9 == IF h[n].left = Nil THEN Transplant(t, n, h[n].right)
              ELSE IF h[n].right = Nil THEN Transplant(t, n, h[n].left)
              ELSE LET s  == Leftmost(h, h[n].right)
                       t2 == IF h[s].parent # n
                             THEN LET a == Transplant(t, s, h[s].right)
                                      b == [a EXCEPT !.nodes[s].right = a.nodes[n].right]
                                  IN  [b EXCEPT !.nodes[b.nodes[s].right].parent = s]
                             ELSE t
                       t3 == Transplant(t2, n, s)
                       t4 == [t3 EXCEPT !.nodes[s].left = t3.nodes[n].left]
                   IN  [t4 EXCEPT !.nodes[t4.nodes[s].left].parent = s]
    IN  [t9 EXCEPT !.size = @ - 1]

\* A Delete that decrements the size although nothing was found.
DeleteCountsMissing(t, v) ==
    LET n == Find(t.nodes, t.root, v) IN
    IF n # Nil THEN [t |-> RemoveNode(t, n), ret |-> TRUE]
    ELSE [t |-> [t EXCEPT !.size = @ - 1], ret |-> FALSE]

\* Tree.Delete: the tree after t.Delete(v) and the boolean returned.
TreeDelete(t, v) ==
    LET n == Find(t.nodes, t.root, v) IN
    IF n # Nil THEN [t |-> RemoveNode(t, n), ret |-> TRUE]
    ELSE [t |-> t, ret |-> FALSE]

\* ------------------------------------------------------------- the collector
\* One step of pointer chasing from the set S of addresses.
Pointed(h, S) ==
    (S \cup UNION {{h[n].left, h[n].right, h[n].parent} : n \in S \cap DOMAIN h})
        \ {Nil}

RECURSIVE Closure(_, _)
Closure(h, S) == IF Pointed(h, S) = S THEN S ELSE Closure(h, Pointed(h, S))

\* The heap once Go's collector has freed every Node no pointer of the
\* tree leads to (the caller of Delete keeps no reference to the node).
Collect(t) ==
    LET live == Closure(t.nodes, {t.root} \ {Nil}) \cap DOMAIN t.nodes
    IN  [t EXCEPT !.nodes = [n \in live |-> t.nodes[n]]]

\* The heap once the collector has freed every Node that neither the tree
\* nor a pointer in R (the locals of running calls) leads to.
CollectRoots(t, R) ==
    LET live == Closure(t.nodes, ({t.root} \cup R) \ {Nil}) \cap DOMAIN t.nodes
    IN  [t EXCEPT !.nodes = [n \in live |-> t.nodes[n]]]

\* ------------------------------------------------------------- bulk load
\* An Init whose loop starts at the second element of vs.
TreeInitSkipFirst(t, vs) ==
    LET RECURSIVE go(_, _)
        go(u, q) == IF q = <<>> THEN u ELSE go(TreeInsert(u, Head(q)).t, Tail(q))
    IN  IF vs = <<>> THEN t ELSE go(t, Tail(vs))

\* Tree.Init(vs): t.Insert(v) for each v of vs in order.
RECURSIVE TreeInit(_, _)
TreeInit(t, vs) ==
    IF vs = <<>> THEN t ELSE TreeInit(TreeInsert(t, Head(vs)).t, Tail(vs))

\* idx with the entries at r and i exchanged: idx[r], idx[i] = idx[i], idx[r].
Swap(idx, r, i) == [idx EXCEPT ![r] = idx[i], ![i] = idx[r]]

\* A loop body of RandInit that forgets the exchange of idx[r] and idx[i].
RandStepNoSwap(c, t, r) ==
    [t |-> TreeInsert(t, c.vs[c.idx[r] + 1]).t,
     c |-> [c EXCEPT !.used = Append(@, c.idx[r]), !.i = c.i - 1]]

\* One iteration of RandInit's loop (lines 200-204) with rand.Intn(i+1) = r.
\* Slices are indexed from 0 in the source and sequences from 1 here;
\* c.used (ghost) lists the indices of vs handed to Insert so far.
RandStep(c, t, r) ==
    [t |-> TreeInsert(t, c.vs[c.idx[r] + 1]).t,
     c |-> [c EXCEPT !.used = Append(@, c.idx[r]),
                     !.idx = Swap(c.idx, r, c.i),
                     !.i = c.i - 1]]

\* ------------------------------------------------------------- specifications
NoOp == [op |-> "New", v |-> Nil, node |-> Nil, ok |-> FALSE, pre |-> New]
NoHist == [inserted |-> {}, added |-> 0, removed |-> 0, ops |-> 0, set |-> {}]
NoCall == [pc |-> "idle", vs |-> <<>>, idx |-> <<>>, i |-> 0, used |-> <<>>]
Idle == [pc |-> "idle", op |-> "none", v |-> Nil, n |-> Nil, x |-> Nil]
NoProcs == [th |-> [p \in {1, 2} |-> Idle], overlap |-> FALSE, started |-> 0]

\* The state New leaves.
Fresh ==
    /\ root = New.root
    /\ size = New.size
    /\ nodes = New.nodes
    /\ last = NoOp
    /\ hist = NoHist
    /\ lessFn = "Less"
    /\ procs = NoProcs

\* The tree and the record of the last operation become those of res.
Becomes(op, v, res, node, ok) ==
    /\ root' = res.root
    /\ size' = res.size
    /\ nodes' = res.nodes
    /\ last' = [op |-> op, v |-> v, node |-> node, ok |-> ok, pre |-> T]
    /\ UNCHANGED <<lessFn, procs>>

\* t.Insert(v).  The guard keeps an address free for the allocator.
DoInsert(v) ==
    /\ DOMAIN nodes # NodeIds
    /\ LET r == TreeInsert(T, v) IN Becomes("Insert", v, r.t, r.ret, FALSE)

\* t.Delete(v), after which the removed node is garbage.
DoDelete(v) ==
    LET r == TreeDelete(T, v) IN Becomes("Delete", v, Collect(r.t), Nil, r.ret)

\* ---- Spec: any sequence of Insert and Delete on a tree made by New.
Init == Fresh /\ call = NoCall

Insert(v) == DoInsert(v) /\ UNCHANGED <<hist, call>>

Delete(v) == DoDelete(v) /\ UNCHANGED <<hist, call>>

NextState == \E v \in Values : Insert(v) \/ Delete(v)

Spec == Init /\ [][NextState]_vars

\* ---- SpecHist: the same operations, counted (ghost hist), at most MaxOps
\* of them over the values 1..HistVal.
InsertCounted(v) ==
    /\ hist.ops < MaxOps
    /\ DoInsert(v)
    /\ hist' = [inserted |-> hist.inserted \cup {v},
                added    |-> hist.added + (IF Find(nodes, root, v) = Nil THEN 1 ELSE 0),
                removed  |-> hist.removed,
                ops      |-> hist.ops + 1,
                set      |-> hist.set \cup {v}]
    /\ UNCHANGED call

DeleteCounted(v) ==
    /\ hist.ops < MaxOps
    /\ DoDelete(v)
    /\ hist' = [hist EXCEPT !.removed = @ + (IF last'.ok THEN 1 ELSE 0),
                            !.ops = @ + 1,
                            !.set = @ \ {v}]
    /\ UNCHANGED call

\* t.Find(v) and t.Contains(v): neither assigns to the tree or to a node.
Lookup(v) ==
    /\ last' = [op |-> "Find", v |-> v, node |-> TreeFind(T, v),
                ok |-> TreeContains(T, v), pre |-> T]
    /\ UNCHANGED <<root, size, nodes, hist, call, lessFn, procs>>

NextHist == \E v \in 1..HistVal : InsertCounted(v) \/ DeleteCounted(v) \/ Lookup(v)

SpecHist == Init /\ [][NextHist]_vars

\* ---- SpecRand: one call t.RandInit(vs) on a tree made by New, for every
\* vs of at most MaxLen values and every outcome of rand.Intn.
Inputs == UNION {[1..n -> Values] : n \in 0..MaxLen}

InitRand ==
    /\ Fresh
    /\ \E vs \in Inputs :
           call = [pc |-> "RandInit", vs |-> vs, idx |-> <<>>, i |-> 0, used |-> <<>>]

\* Lines 195-199: idx[i] = i for every i, and the loop starts at n-1.
RandInitEnter ==
    /\ call.pc = "RandInit"
    /\ call' = [call EXCEPT !.pc = "loop",
                            !.idx = [k \in 0..(Len(call.vs) - 1) |-> k],
                            !.i = Len(call.vs) - 1]
    /\ UNCHANGED <<root, size, nodes, last, hist, lessFn, procs>>

\* Lines 200-204, one iteration.
RandInitLoop ==
    /\ call.pc = "loop"
    /\ call.i >= 0
    /\ \E r \in 0..call.i :
           LET s == RandStep(call, T, r) IN
               /\ root' = s.t.root
               /\ size' = s.t.size
               /\ nodes' = s.t.nodes
               /\ call' = s.c
    /\ UNCHANGED <<last, hist, lessFn, procs>>

\* Line 200 with i < 0: RandInit returns.
RandInitReturn ==
    /\ call.pc = "loop"
    /\ call.i < 0
    /\ call' = [call EXCEPT !.pc = "done"]
    /\ UNCHANGED <<root, size, nodes, last, hist, lessFn, procs>>

NextRand == RandInitEnter \/ RandInitLoop \/ RandInitReturn

SpecRand == InitRand /\ [][NextRand]_vars

\* ---- SpecStress: t.Init(vs) for every order vs of the values
\* 1..StressSize, then one Delete.
RECURSIVE Orders(_)
Orders(S) ==
    IF S = {} THEN {<<>>}
    ELSE UNION {{<<x>> \o p : p \in Orders(S \ {x})} : x \in S}

InitStress ==
    /\ Fresh
    /\ \E vs \in Orders(1..StressSize) :
           call = [pc |-> "Init", vs |-> vs, idx |-> <<>>, i |-> 0, used |-> <<>>]

\* t.Init(call.vs)
StressInit ==
    /\ call.pc = "Init"
    /\ LET t == TreeInit(T, call.vs) IN
           /\ root' = t.root
           /\ size' = t.size
           /\ nodes' = t.nodes
    /\ call' = [call EXCEPT !.pc = "loaded"]
    /\ UNCHANGED <<last, hist, lessFn, procs>>

\* t.Delete(v) on the loaded tree.
StressDelete(v) ==
    /\ call.pc = "loaded"
    /\ DoDelete(v)
    /\ call' = [call EXCEPT !.pc = "deleted"]
    /\ UNCHANGED hist

\* ---- SpecZero: Insert and Delete on a Tree that is either made by New or
\* the zero value Tree{} (root nil, size 0, lessFn nil).  Calling the nil
\* lessFn is a run-time panic, after which the program has ended.
InitZero ==
    /\ root = Nil
    /\ size = 0
    /\ nodes = New.nodes
    /\ lessFn \in {"nil", "Less"}
    /\ last = NoOp
    /\ hist = NoHist
    /\ call = NoCall
    /\ procs = NoProcs

\* The call ends in a panic before it has assigned anything.
Panics(op, v) ==
    /\ last' = [op |-> op, v |-> v, node |-> Panic, ok |-> FALSE, pre |-> T]
    /\ call' = [call EXCEPT !.pc = "panic"]
    /\ UNCHANGED <<root, size, nodes, hist, lessFn, procs>>

\* t.Insert(v): t.lessFn is first called at line 271, inside the loop, which
\* is entered only when t.root != nil; line 284 is reached with n == nil
\* only when the loop was not entered.
InsertAny(v) ==
    /\ call.pc # "panic"
    /\ IF lessFn = "nil" /\ root # Nil
       THEN Panics("Insert", v)
       ELSE DoInsert(v) /\ UNCHANGED <<hist, call>>

\* t.Delete(v): Node.Find calls the node's lessFn (the tree's, line 280) at
\* line 96, inside its loop, entered only when t.root != nil.
DeleteAny(v) ==
    /\ call.pc # "panic"
    /\ IF lessFn = "nil" /\ root # Nil
       THEN Panics("Delete", v)
       ELSE DoDelete(v) /\ UNCHANGED <<hist, call>>

NextZero == \E v \in Values : InsertAny(v) \/ DeleteAny(v)

SpecZero == InitZero /\ [][NextZero]_vars

\* ---- SpecRace: two goroutines call Insert and Delete on one tree made by
\* New, with no lock.  Each call is two steps, its reads (the descent) and
\* its writes, and the steps of the two goroutines interleave.  At most
\* RaceOps calls are started, over the values 1..HistVal; procs.overlap
\* (ghost) records that a call began while the other goroutine was in one.
Procs == {1, 2}
Other(p) == 3 - p

\* The node pointers held in the locals of the goroutines th.
Locals(th) == {th[p].n : p \in Procs} \ {Nil}

\* Goroutine p calls t.Insert(v) or t.Delete(v).
Begin(p, op, v) ==
    /\ procs.th[p].pc = "idle"
    /\ procs.started < RaceOps
    /\ procs' = [th      |-> [procs.th EXCEPT ![p] =
                                 [pc |-> IF op = "Insert" THEN "descend" ELSE "find",
                                  op |-> op, v |-> v, n |-> Nil, x |-> Nil]],
                 overlap |-> procs.overlap \/ procs.th[Other(p)].pc # "idle",
                 started |-> procs.started + 1]
    /\ UNCHANGED <<root, size, nodes, last, hist, call, lessFn>>

\* Insert, lines 267-278: the descent; an equal value found returns.
InsertDescend(p) ==
    /\ procs.th[p].pc = "descend"
    /\ LET d == Descend(nodes, root, Nil, procs.th[p].v) IN
           procs' = [procs EXCEPT !.th[p] =
                        IF d.x # Nil THEN Idle
                        ELSE [@ EXCEPT !.pc = "attach", !.n = d.n]]
    /\ UNCHANGED <<root, size, nodes, last, hist, call, lessFn>>

\* Insert, lines 280-290: the new node is hung under the node found before.
InsertAttach(p) ==
    /\ procs.th[p].pc = "attach"
    /\ DOMAIN nodes # NodeIds
    /\ LET th == [procs.th EXCEPT ![p] = Idle]
           t  == CollectRoots(Attach(T, procs.th[p].n, procs.th[p].v), Locals(th))
       IN  /\ root' = t.root
           /\ size' = t.size
           /\ nodes' = t.nodes
           /\ procs' = [procs EXCEPT !.th = th]
    /\ UNCHANGED <<last, hist, call, lessFn>>

\* Delete, line 295: t.Find(v); nil returns false.
DeleteFind(p) ==
    /\ procs.th[p].pc = "find"
    /\ LET n == TreeFind(T, procs.th[p].v) IN
           procs' = [procs EXCEPT !.th[p] =
                        IF n = Nil THEN Idle ELSE [@ EXCEPT !.pc = "remove", !.n = n]]
    /\ UNCHANGED <<root, size, nodes, last, hist, call, lessFn>>

\* Delete, line 296: t.removeNode(n) of the node found before.
DeleteRemove(p) ==
    /\ procs.th[p].pc = "remove"
    /\ LET th == [procs.th EXCEPT ![p] = Idle]
           t  == CollectRoots(RemoveNode(T, procs.th[p].n), Locals(th))
       IN  /\ root' = t.root
           /\ size' = t.size
           /\ nodes' = t.nodes
           /\ procs' = [procs EXCEPT !.th = th]
    /\ UNCHANGED <<last, hist, call, lessFn>>

NextRace ==
    \E p \in Procs :
        \/ \E v \in 1..HistVal : Begin(p, "Insert", v) \/ Begin(p, "Delete", v)
        \/ InsertDescend(p)
        \/ InsertAttach(p)
        \/ DeleteFind(p)
        \/ DeleteRemove(p)

SpecRace == Init /\ [][NextRace]_vars

\* ---- SpecLoad: t.Init(vs) on a tree made by New, for every vs of at most
\* MaxLen values.
InitLoad ==
    /\ Fresh
    /\ \E vs \in Inputs :
           call = [pc |-> "Init", vs |-> vs, idx |-> <<>>, i |-> 0, used |-> <<>>]

SpecLoad == InitLoad /\ [][StressInit]_vars

NextStress == StressInit \/ \E v \in 1..StressSize : StressDelete(v)

SpecStress == InitStress /\ [][NextStress]_vars

\* ------------------------------------------------------------- notions
\* The notions the properties below are stated in; none of them is code.

\* One step down the left and right pointers from the set S.
Kids(h, S) ==
    (S \cup UNION {{h[n].left, h[n].right} : n \in S \cap DOMAIN h}) \ {Nil}

RECURSIVE Down(_, _)
Down(h, S) == IF Kids(h, S) = S THEN S ELSE Down(h, Kids(h, S))

\* The nodes of the subtree at n, and the nodes reachable from the root.
Sub(h, n) == Down(h, {n} \ {Nil})
Reach(t) == Sub(t.nodes, t.root)

\* The values stored below n, and in the tree.
SubVals(h, n) == {h[m].val : m \in Sub(h, n)}
Stored(t) == SubVals(t.nodes, t.root)
Has(t, v) == \E w \in Stored(t) : Equal(w, v)

\* Every pointer followed from the root leads to a live node.
WellFormed(t) == Reach(t) \subseteq DOMAIN t.nodes

\* The left/right links form a tree: the root hangs nowhere and every other
\* reachable node hangs in exactly one child slot.
Slots(t, n) ==
    {<<m, side>> \in Reach(t) \X {"left", "right"} :
        IF side = "left" THEN t.nodes[m].left = n ELSE t.nodes[m].right = n}
TreeShaped(t) ==
    /\ WellFormed(t)
    /\ \A n \in Reach(t) : Cardinality(Slots(t, n)) = (IF n = t.root THEN 0 ELSE 1)

\* Parent links agree with child links and climb to nil at the root.
ParentsAgree(t) ==
    /\ WellFormed(t)
    /\ t.root # Nil => t.nodes[t.root].parent = Nil
    /\ \A n \in Reach(t) :
        /\ t.nodes[n].left # Nil => t.nodes[t.nodes[n].left].parent = n
        /\ t.nodes[n].right # Nil => t.nodes[t.nodes[n].right].parent = n

\* The binary-search-tree property at every reachable node.
Ordered(t) ==
    /\ WellFormed(t)
    /\ \A n \in Reach(t) :
        /\ \A w \in SubVals(t.nodes, t.nodes[n].left) : Less(w, t.nodes[n].val)
        /\ \A w \in SubVals(t.nodes, t.nodes[n].right) : Less(t.nodes[n].val, w)

\* No two reachable nodes hold values that compare equal.
Unique(t) ==
    \A a, b \in Reach(t) : a # b => ~Equal(t.nodes[a].val, t.nodes[b].val)

\* The in-order sequence of values below n (left, node, right).
RECURSIVE InOrderAt(_, _)
InOrderAt(h, n) ==
    IF n = Nil THEN <<>>
    ELSE InOrderAt(h, h[n].left) \o <<h[n].val>> \o InOrderAt(h, h[n].right)
InOrder(t) == InOrderAt(t.nodes, t.root)

Ascending(q) == \A j \in 1..(Len(q) - 1) : Less(q[j], q[j + 1])
Descending(q) == \A j \in 1..(Len(q) - 1) : Less(q[j + 1], q[j])
Range(q) == {q[j] : j \in 1..Len(q)}

\* q with its elements equal to v left out.
RECURSIVE Without(_, _)
Without(q, v) ==
    IF q = <<>> THEN <<>>
    ELSE IF Equal(Head(q), v) THEN Without(Tail(q), v)
    ELSE <<Head(q)>> \o Without(Tail(q), v)

\* A node with both children.
TwoChildren(t, n) == n # Nil /\ t.nodes[n].left # Nil /\ t.nodes[n].right # Nil

\* ------------------------------------------------------------- C1
\* C1: after any sequence of Insert and Delete the binary-search-tree property
\* holds at every node reachable from the root (left subtree strictly less,
\* right subtree strictly greater), so no two reachable nodes compare equal.
C1_BSTProperty == Ordered(T) /\ Unique(T)

\* A two-child node was just deleted from a tree that held every value.
C1_Witness ==
    /\ last.op = "Delete" /\ last.ok
    /\ last.pre.size = MaxVal
    /\ TwoChildren(last.pre, Find(last.pre.nodes, last.pre.root, last.v))

\* ------------------------------------------------------------- C2
\* C2: after any sequence of Insert and Delete the root's parent is nil and
\* every reachable node's left and right child, if present, has that node
\* as its parent.
C2_ParentConsistency == ParentsAgree(T)

\* A two-child node whose successor lay deeper than its right child was
\* just deleted: every transplant and parent fix-up of removeNode has run.
C2_Witness ==
    /\ last.op = "Delete" /\ last.ok
    /\ LET p == last.pre
           n == Find(p.nodes, p.root, last.v)
       IN  /\ TwoChildren(p, n)
           /\ p.nodes[p.nodes[n].right].left # Nil

\* ------------------------------------------------------------- C3
\* C3: after any sequence of Insert and Delete, Len() is the number of nodes
\* reachable from the root and is 0 exactly when the root is nil, so Slice()
\* writes every index of its Len()-sized array and none outside it.
C3_LenCountsNodes ==
    /\ size = Cardinality(Reach(T))
    /\ size = 0 <=> root = Nil
    /\ LET s == Slice(T) IN
        /\ ~s.panic
        /\ s.i = Len(s.array)
        /\ Nil \notin Range(s.array)

\* A successful Delete left a tree of at least two nodes.
C3_Witness == last.op = "Delete" /\ last.ok /\ size >= 2 /\ Len(Slice(T).array) >= 2

\* ------------------------------------------------------------- C4
\* C4 as stated: Len() equals the number of distinct values ever inserted
\* minus the number of Deletes that returned true.
C4_DistinctEverInserted == size = Cardinality(hist.inserted) - hist.removed

\* C4, amended: Len() equals the number of Insert calls whose value was not
\* in the tree at the time of the call minus the number of Delete calls that
\* returned true.
C4_AddedMinusRemoved == size = hist.added - hist.removed

\* A value was inserted, deleted and inserted again.
C4_Witness ==
    /\ hist.added > Cardinality(hist.inserted)
    /\ hist.removed >= 1
    /\ size >= 1

\* ------------------------------------------------------------- C5
\* C5: Insert(v) with a value equal to v already in the tree returns the node
\* holding it and changes nothing: root, Len(), every node's value and links
\* are as before; so a second Insert of a value just inserted changes neither
\* Len() nor the in-order sequence.
C5_InsertExistingIsNoOp ==
    last.op = "Insert" =>
        /\ Has(last.pre, last.v) =>
            /\ last.node \in Reach(last.pre)
            /\ Equal(last.pre.nodes[last.node].val, last.v)
            /\ T = last.pre
        /\ LET again == TreeInsert(T, last.v) IN
            /\ again.t.size = size
            /\ InOrder(again.t) = InOrder(T)
            /\ again.t = T
            /\ again.ret = last.node

\* Insert of a value stored deep in a tree of at least three nodes.
C5_Witness ==
    /\ last.op = "Insert"
    /\ Has(last.pre, last.v)
    /\ last.pre.size >= 3
    /\ last.node # last.pre.root

\* ------------------------------------------------------------- C6
\* C6: Delete(v) of a value not in the tree (also on the empty tree) returns
\* false and leaves root, Len() and every node's value and links as before.
C6_DeleteMissingIsNoOp ==
    (last.op = "Delete" /\ ~Has(last.pre, last.v)) => (~last.ok /\ T = last.pre)

\* Delete of a missing value from a tree of at least two nodes.
C6_Witness ==
    /\ last.op = "Delete"
    /\ ~Has(last.pre, last.v)
    /\ last.pre.size >= 2

\* ------------------------------------------------------------- C7
\* C7: Delete(v) returns true exactly when a value equal to v was in the tree
\* before the call; then Len() is one less, the in-order sequence is the
\* previous one without v, and a repeated Delete(v) returns false.
C7_DeleteRemovesExactlyV ==
    last.op = "Delete" =>
        /\ last.ok <=> Has(last.pre, last.v)
        /\ last.ok =>
            /\ size = last.pre.size - 1
            /\ InOrder(T) = Without(InOrder(last.pre), last.v)
            /\ Len(InOrder(T)) = Len(InOrder(last.pre)) - 1
            /\ ~TreeDelete(T, last.v).ret

\* A successful Delete of a node with two children.
C7_Witness ==
    /\ last.op = "Delete" /\ last.ok
    /\ TwoChildren(last.pre, Find(last.pre.nodes, last.pre.root, last.v))
    /\ size >= 3

\* ------------------------------------------------------------- C8
\* C8: in a tree of at least 7 distinct values, Delete of the value of a node
\* n with two children keeps the binary-search-tree property and loses no
\* value of n's right subtree; when the successor s is not n's right child,
\* s's old right subtree hangs under s's old parent and n's right subtree
\* has become s's right subtree.
C8_TwoChildDelete ==
    LET p == last.pre
        n == Find(p.nodes, p.root, last.v)
        s == Min(p.nodes, p.nodes[n].right)
        q == p.nodes[s].parent
    IN  (last.op = "Delete" /\ p.size >= 7 /\ TwoChildren(p, n)) =>
            /\ last.ok
            /\ Ordered(T) /\ Unique(T)
            /\ SubVals(p.nodes, p.nodes[n].right) \subseteq Stored(T)
            /\ Stored(T) = Stored(p) \ {last.v}
            /\ s \in Reach(T)
            /\ nodes[s].left = p.nodes[n].left
            /\ q # n =>
                /\ q \in Reach(T)
                /\ nodes[q].left = p.nodes[s].right
                /\ nodes[s].right = p.nodes[n].right
                /\ SubVals(nodes, nodes[s].right) = SubVals(p.nodes, p.nodes[n].right) \ {nodes[s].val}
            /\ q = n => nodes[s].right = p.nodes[s].right
            /\ ParentsAgree(T)

\* The deleted node had two children, and its successor, deeper than its
\* right child, had a right subtree of its own.
C8_Witness ==
    LET p == last.pre
        n == Find(p.nodes, p.root, last.v)
        s == Min(p.nodes, p.nodes[n].right)
    IN  /\ last.op = "Delete" /\ last.ok
        /\ p.size >= 7
        /\ TwoChildren(p, n)
        /\ p.nodes[s].parent # n
        /\ p.nodes[s].right # Nil

\* ------------------------------------------------------------- C9
\* The value of a node, nil for nil.
ValOf(h, n) == IF n = Nil THEN Nil ELSE h[n].val

\* The first k results of n, n.Next(), n.Next().Next(), ... as values; the
\* walk stays at nil once it is nil.
RECURSIVE NextWalk(_, _, _)
NextWalk(h, n, k) ==
    IF k = 0 THEN <<>>
    ELSE <<ValOf(h, n)>> \o NextWalk(h, IF n = Nil THEN Nil ELSE Next(h, n), k - 1)

RECURSIVE PrevWalk(_, _, _)
PrevWalk(h, n, k) ==
    IF k = 0 THEN <<>>
    ELSE <<ValOf(h, n)>> \o PrevWalk(h, IF n = Nil THEN Nil ELSE Prev(h, n), k - 1)

\* C9: from Min(), repeated Next() visits every stored value exactly once in
\* ascending order and is nil right after the maximum; from Max(), repeated
\* Prev() visits every value exactly once in descending order and is nil
\* right after the minimum.
C9_NextPrevTotalOrder ==
    LET k    == Cardinality(Stored(T))
        up   == NextWalk(nodes, Min(nodes, root), k + 1)
        down == PrevWalk(nodes, Max(nodes, root), k + 1)
    IN  /\ Range(SubSeq(up, 1, k)) = Stored(T)
        /\ Ascending(SubSeq(up, 1, k))
        /\ up[k + 1] = Nil
        /\ Range(SubSeq(down, 1, k)) = Stored(T)
        /\ Descending(SubSeq(down, 1, k))
        /\ down[k + 1] = Nil

\* After a Delete, a tree of three nodes in which Next has to descend to the
\* minimum of a right subtree and to climb from a left and from a right child.
C9_Witness ==
    /\ last.op = "Delete" /\ last.ok
    /\ size = 3
    /\ nodes[root].right # Nil
    /\ nodes[nodes[root].right].left # Nil

\* ------------------------------------------------------------- C10
\* C10: for every vs and every choice of the random indices, RandInit(vs) on
\* an empty tree hands each element of vs to Insert exactly once, and the
\* resulting Len(), membership and in-order sequence (strictly ascending,
\* duplicates collapsed) are those Init(vs) produces.
C10_RandInitLikeInit ==
    call.pc = "done" =>
        LET n == Len(call.vs)
            seq == TreeInit(New, call.vs)
        IN  /\ Len(call.used) = n
            /\ \A k \in 0..(n - 1) :
                   Cardinality({j \in 1..n : call.used[j] = k}) = 1
            /\ size = seq.size
            /\ \A v \in Values :
                   (Find(nodes, root, v) # Nil) <=> (Find(seq.nodes, seq.root, v) # Nil)
            /\ ~Slice(T).panic
            /\ Slice(T).array = Slice(seq).array
            /\ Ascending(Slice(T).array)
            /\ Range(Slice(T).array) = Range(call.vs)

\* RandInit has returned after loading three values, two of them equal, in
\* an order that made another root than Init's.
C10_Witness ==
    /\ call.pc = "done"
    /\ Len(call.vs) = 3
    /\ Cardinality(Range(call.vs)) = 2
    /\ nodes[root].val # call.vs[1]

\* ------------------------------------------------------------- C11
\* C11: after any sequence of Insert and Delete, Contains(v) is true, and
\* Find(v) is a node whose value equals v, exactly when v is in the set
\* obtained by applying the same inserts and deletes to a mathematical set;
\* Find and Contains leave the tree as it was.
C11_FindMatchesSet ==
    /\ \A v \in 1..HistVal :
        /\ TreeContains(T, v) <=> v \in hist.set
        /\ Contains(nodes, root, v) <=> v \in hist.set
        /\ TreeFind(T, v) # Nil <=> v \in hist.set
        /\ TreeFind(T, v) # Nil =>
            /\ TreeFind(T, v) \in Reach(T)
            /\ Equal(nodes[TreeFind(T, v)].val, v)
    /\ last.op = "Find" =>
        /\ last.ok <=> last.v \in hist.set
        /\ last.node # Nil <=> last.ok
        /\ T = last.pre

\* A Find of a stored value in the right part of a tree from which another
\* value has been deleted.
C11_Witness ==
    /\ last.op = "Find" /\ last.ok
    /\ hist.removed >= 1
    /\ size >= 2
    /\ Less(nodes[root].val, last.v)

\* ------------------------------------------------------------- C12
NonDecreasing(q) == \A j \in 1..(Len(q) - 1) : ~Less(q[j + 1], q[j])

\* C12 as stated: the empty tree has Height() 0, a one-node tree 1, and the
\* tree Init builds from already-sorted input of length n has Height() n.
C12_SortedInputHeight ==
    /\ root = Nil => TreeHeight(T) = 0
    /\ size = 1 => TreeHeight(T) = 1
    /\ (call.pc = "loaded" /\ NonDecreasing(call.vs)) => TreeHeight(T) = Len(call.vs)

\* C12, amended: the empty tree has Height() 0, a one-node tree 1, and the
\* tree Init builds from already-sorted input of n values no two of which
\* are equal has Height() n.
C12_StrictlySortedInputHeight ==
    /\ root = Nil => TreeHeight(T) = 0
    /\ size = 1 => TreeHeight(T) = 1
    /\ (call.pc = "loaded" /\ Ascending(call.vs)) => TreeHeight(T) = Len(call.vs)

\* Init has loaded MaxLen ascending values.
C12_Witness ==
    /\ call.pc = "loaded"
    /\ Len(call.vs) = MaxLen
    /\ Ascending(call.vs)
    /\ TreeHeight(T) = MaxLen

\* ------------------------------------------------------------- C13
\* C13: for any tree reached by inserts and deletes, a fresh tree loaded by
\* Init with the elements of Slice() in order has the same Slice() (in-order
\* sequence) and the same Len() as the original.
C13_SliceRoundTrip ==
    LET s  == Slice(T)
        t2 == TreeInit(New, s.array)
    IN  /\ ~s.panic
        /\ t2.size = size
        /\ ~Slice(t2).panic
        /\ Slice(t2).array = s.array
        /\ InOrder(t2) = InOrder(T)

\* After a Delete, a tree of three nodes whose root has two children: the
\* reloaded tree, a chain, has another shape.
C13_Witness ==
    /\ last.op = "Delete" /\ last.ok
    /\ size = 3
    /\ TwoChildren(T, root)
    /\ TreeHeight(TreeInit(New, Slice(T).array)) = 3

\* ------------------------------------------------------------- C14
\* The renderings of the values of q with one space between neighbours.
RECURSIVE Spaced(_)
Spaced(q) ==
    IF q = <<>> THEN <<>>
    ELSE IF Len(q) = 1 THEN Fmt(q[1])
    ELSE Fmt(Head(q)) \o <<" ">> \o Spaced(Tail(q))

\* C14: String() of a tree or subtree is "[", the in-order values separated
\* by exactly one space with no trailing space, and "]"; it is "[]" for an
\* empty tree or nil node; the values come in the order of Slice().
C14_StringFormat ==
    /\ NodeString(nodes, Nil) = <<"[", "]">>
    /\ root = Nil => TreeString(T) = <<"[", "]">>
    /\ TreeString(T) = <<"[">> \o Spaced(Slice(T).array) \o <<"]">>
    /\ \A n \in Reach(T) :
        LET str == NodeString(nodes, n) IN
            /\ str = <<"[">> \o Spaced(InOrderAt(nodes, n)) \o <<"]">>
            /\ str[1] = "[" /\ str[Len(str)] = "]"
            /\ str[Len(str) - 1] # " "
            /\ Cardinality({j \in 1..Len(str) : str[j] = " "}) = Cardinality(Sub(nodes, n)) - 1

\* After a Delete, the string of a tree of three values.
C14_Witness ==
    /\ last.op = "Delete" /\ last.ok
    /\ size = 3
    /\ Len(TreeString(T)) = 7

\* ------------------------------------------------------------- C15
\* C15: on an empty tree, fresh or emptied by deleting every value, no query
\* faults: Min(), Max() and Find(v) are nil, Contains(v) is false, Height()
\* and Len() are 0 and Slice() is the empty sequence.
C15_EmptyTreeQueries ==
    Stored(T) = {} =>
        /\ TreeMin(T) = Nil
        /\ TreeMax(T) = Nil
        /\ \A v \in Values :
            /\ TreeFind(T, v) = Nil
            /\ ~TreeContains(T, v)
            /\ ~Contains(nodes, root, v)
        /\ TreeHeight(T) = 0
        /\ size = 0
        /\ ~Slice(T).panic
        /\ Slice(T).array = <<>>
        /\ TreeString(T) = <<"[", "]">>

\* A tree that held three values has been emptied by Deletes.
C15_Witness ==
    /\ last.op = "Delete" /\ last.ok
    /\ Stored(T) = {}
    /\ \E z \in DOMAIN last.pre.nodes : z >= 3

\* ------------------------------------------------------------- C16
\* C16: an Insert into a Tree that was not made by New (the zero Tree, its
\* comparator nil) ends in a panic.
C16_InsertIntoZeroTreePanics ==
    (last.op = "Insert" /\ lessFn = "nil") => last.node = Panic

\* ------------------------------------------------------------- C17
RECURSIVE Pow2(_)
Pow2(k) == IF k = 0 THEN 1 ELSE 2 * Pow2(k - 1)

\* C17: after any sequence of Insert and Delete, a tree of n elements has
\* Height() at least lg n and at most n: Len() <= 2^Height() - 1 and
\* Height() <= Len(); a tree of 2 elements has height exactly 2.
C17_HeightBounds ==
    /\ TreeHeight(T) >= 0
    /\ size <= Pow2(TreeHeight(T)) - 1
    /\ TreeHeight(T) <= size
    /\ size = 2 => TreeHeight(T) = 2

\* After a Delete, a tree of three nodes of the least height, 2.
C17_Witness ==
    /\ last.op = "Delete" /\ last.ok
    /\ size = 3
    /\ TreeHeight(T) = 2

\* ------------------------------------------------------------- C18
\* The parent/child invariants and Len() = node count.
Consistent(t) == ParentsAgree(t) /\ t.size = Cardinality(Reach(t))

\* C18: as long as the calls of the two goroutines have run one after
\* another, the parent/child invariants and Len() = node count hold (the
\* states in which they fail, which C18_Witness shows to exist, are reached
\* only when the reads and writes of two calls have interleaved).
C18_SerialCallsKeepInvariants ==
    ~procs.overlap => (Consistent(T) /\ Ordered(T) /\ Unique(T))

\* Two calls whose steps interleaved have both returned and left a tree in
\* which the parent/child invariants or Len() = node count fail.
C18_Witness ==
    /\ procs.overlap
    /\ \A p \in Procs : procs.th[p].pc = "idle"
    /\ ~Consistent(T)

\* ------------------------------------------------------------- C19
\* Following f (a field name) from n ends at nil within k steps.
RECURSIVE Ends(_, _, _, _)
Ends(h, n, f, k) ==
    IF n = Nil THEN TRUE
    ELSE IF k = 0 THEN FALSE
    ELSE Ends(h, (CASE f = "left" -> h[n].left
                    [] f = "right" -> h[n].right
                    [] OTHER -> h[n].parent), f, k - 1)

\* The descent of Find and Insert for v from x ends within k iterations.
RECURSIVE DescentEnds(_, _, _, _)
DescentEnds(h, x, v, k) ==
    IF x = Nil THEN TRUE
    ELSE IF k = 0 THEN FALSE
    ELSE IF Less(v, h[x].val) THEN DescentEnds(h, h[x].left, v, k - 1)
    ELSE IF Less(h[x].val, v) THEN DescentEnds(h, h[x].right, v, k - 1)
    ELSE TRUE

\* The parent chain of n, from n up to the node whose parent is nil.
RECURSIVE Ancestors(_, _, _)
Ancestors(h, n, k) ==
    IF n = Nil \/ k = 0 THEN <<>> ELSE <<n>> \o Ancestors(h, h[n].parent, k - 1)

\* The first k nodes of n, n.Next(), n.Next().Next(), ...; of Prev likewise.
RECURSIVE NextNodes(_, _, _)
NextNodes(h, n, k) ==
    IF n = Nil \/ k = 0 THEN <<>> ELSE <<n>> \o NextNodes(h, Next(h, n), k - 1)

RECURSIVE PrevNodes(_, _, _)
PrevNodes(h, n, k) ==
    IF n = Nil \/ k = 0 THEN <<>> ELSE <<n>> \o PrevNodes(h, Prev(h, n), k - 1)

Distinct(q) == Cardinality(Range(q)) = Len(q)

\* C19: on every tree reachable by Insert and Delete the links are acyclic:
\* left/right from the root never come back to a node, and parent links from
\* any reachable node reach nil at the root; so the loops of Find, Insert,
\* Min, Max, Next, Prev and removeNode's successor search end, and Next and
\* Prev never come back to a node.
C19_Acyclic ==
    LET k == Cardinality(Reach(T)) IN
    /\ TreeShaped(T)
    /\ \A n \in Reach(T) :
        /\ Ends(nodes, n, "left", k)
        /\ Ends(nodes, n, "right", k)
        /\ Ends(nodes, n, "parent", k)
        /\ LET up == Ancestors(nodes, n, k) IN
            /\ Distinct(up)
            /\ up[Len(up)] = root
        /\ Distinct(NextNodes(nodes, n, k + 1))
        /\ Distinct(PrevNodes(nodes, n, k + 1))
    /\ \A v \in Values : DescentEnds(nodes, root, v, k)

\* A two-child node whose successor lay below its right child has been
\* deleted: the successor was unlinked there and linked in the node's place.
C19_Witness ==
    /\ last.op = "Delete" /\ last.ok
    /\ size = 3
    /\ LET p == last.pre
           n == Find(p.nodes, p.root, last.v)
       IN  /\ TwoChildren(p, n)
           /\ p.nodes[p.nodes[n].right].left # Nil

\* ------------------------------------------------------------- C20
\* C20: Insert of a new value and Delete(v) leave the value of every node
\* alone; every value w other than v that was in the tree is found at the
\* same node before and after; Delete makes only the deleted node
\* unreachable, and Insert of a new value adds one node that did not exist.
C20_NodeIdentityStable ==
    LET p   == last.pre
        old == Reach(p)
        new == Reach(T)
        n   == TreeFind(p, last.v)
    IN  last.op \in {"Insert", "Delete"} =>
        /\ new \subseteq DOMAIN nodes
        /\ \A m \in old \cap new : nodes[m].val = p.nodes[m].val
        /\ \A w \in Stored(p) :
            ~Equal(w, last.v) =>
                /\ TreeFind(T, w) # Nil
                /\ TreeFind(T, w) = TreeFind(p, w)
        /\ (last.op = "Delete" /\ last.ok) => new = old \ {n}
        /\ (last.op = "Delete" /\ ~last.ok) => new = old
        /\ (last.op = "Insert" /\ n # Nil) => new = old /\ last.node = n
        /\ (last.op = "Insert" /\ n = Nil) =>
            /\ last.node \notin DOMAIN p.nodes
            /\ new = old \cup {last.node}
            /\ nodes[last.node].val = last.v

\* A two-child node has been deleted and its successor, which lay below the
\* node's right child, now stands in its place: the same node, with the same
\* value, under the deleted node's former parent slot.
C20_Witness ==
    /\ last.op = "Delete" /\ last.ok
    /\ LET p == last.pre
           n == TreeFind(p, last.v)
       IN  /\ TwoChildren(p, n)
           /\ LET s == Leftmost(p.nodes, p.nodes[n].right) IN
               /\ p.nodes[s].parent # n
               /\ nodes[s].val = p.nodes[s].val
               /\ nodes[s].left = p.nodes[n].left
               /\ nodes[s].right = p.nodes[n].right
               /\ nodes[s].parent = p.nodes[n].parent

====
